---- MODULE Spec2Model ----
(***************************************************************************)
(* FoodRankr backend (src/main.py, src/schemas.py): the four collections   *)
(* of the document store, the bearer-token identity check and the request  *)
(* handlers that write to the store.  One action per HTTP handler; a       *)
(* handler runs as one atomic step (requests one at a time).               *)
(***************************************************************************)
EXTENDS Integers, Sequences, FiniteSets, TLC

VARIABLES
    user,                   \* db["user"]:                  oid -> document
    company,                \* db["company"]:               oid -> document
    pendingcompanyrequest,  \* db["pendingcompanyrequest"]: oid -> document
    foodrank,               \* db["foodrank"]:              oid -> document
    oidgen,                 \* number of ObjectIds generated so far
    now,                    \* datetime.utcnow(), in clock ticks
    resp,                   \* the response to the last request
    held,                   \* token study: the token a client holds, with its issue time
    inflight                \* concurrency studies: request -> its position and locals

vars == <<user, company, pendingcompanyrequest, foodrank, oidgen, now, resp, held, inflight>>
store == <<user, company, pendingcompanyrequest, foodrank>>

(***************************************************************************)
(* Bounds of the model.                                                    *)
(***************************************************************************)
\* ObjectIds the store hands out (documents inserted over a run; seed included)
MaxOid == 3
\* how many ticks around the expiry instant a held token is presented
MaxSkew == 3
\* requests in flight at once in the concurrency studies
MaxRequests == 2

(***************************************************************************)
(* Program constants.                                                      *)
(***************************************************************************)
ACCESS_TOKEN_EXPIRE_MINUTES == 60 * 24
\* the clock ticks twice a second: utcnow() is finer than the whole seconds
\* that the "exp" claim of a token is compared in
TicksPerSecond == 2
\* utcnow() when the process starts, in ticks (any instant after 1970)
Epoch == 10
MinRating == 1
MaxRating == 5

(***************************************************************************)
(* Python values.  A str or None is a record: None, a text that is no      *)
(* ObjectId, or a 24-digit hex string (the n-th ObjectId, written in lower *)
(* or in upper case hex digits).                                           *)
(***************************************************************************)
None == [k |-> "none", s |-> "", n |-> 0, up |-> FALSE]
Text(s) == [k |-> "text", s |-> s, n |-> 0, up |-> FALSE]
Hex(n, up) == [k |-> "hex", s |-> "", n |-> n, up |-> up]

\* bool(v) of a str or None
Truthy(v) == v # None /\ v # Text("")

\* bson ObjectId.is_valid(s): 24 hex digits, of either case
ObjectIdIsValid(v) == v.k = "hex"
\* bson ObjectId(s), s valid: the id, whatever the case of the digits
ObjectId(v) == v.n
\* str(ObjectId): lower-case hex
StrOid(n) == Hex(n, FALSE)

\* ObjectIds are unique across the store.  The n-th document of a collection
\* gets the n-th id of that collection's range (the ranges are apart by more
\* than MaxOid, so no two documents share an id).
UserOids == {0 + n : n \in 1..MaxOid}
CompanyOids == {10 + n : n \in 1..MaxOid}
PendingOids == {20 + n : n \in 1..MaxOid}
RankOids == {30 + n : n \in 1..MaxOid}
First(range) == CHOOSE m \in range : \A k \in range : m <= k
NewOid(range, collection) == First(range) + Cardinality(DOMAIN collection)

(***************************************************************************)
(* Inputs of the requests.                                                 *)
(***************************************************************************)
Emails == {"root@x", "a@x"}
Passwords == {"pw1", "pw2"}
\* a client registers with this password (login tries both)
RegPasswords == {"pw1"}
\* ids a client may send where a company id is expected: the id of every
\* company in lower-case hex, of the first company in upper case too, and the
\* id of a user
IdStrings == {Hex(n, FALSE) : n \in CompanyOids} \cup {Hex(First(UserOids), FALSE)}
UpperIdStrings == {Hex(First(CompanyOids), TRUE)}
\* a company reference as a client may send it at registration: absent, empty,
\* a name, or the hex string of an id
References ==
    {None, Text(""), Text("Acme")} \cup {Hex(First(CompanyOids), up) : up \in BOOLEAN}
\* a company_id as a client may send it: empty, a text that is no id, or an id
CompanyIdInputs == {Text(""), Text("abc")} \cup IdStrings
RatingInputs == {MinRating - 1, MinRating, MaxRating, MaxRating + 1}

(***************************************************************************)
(* Responses.  status/detail as the HTTP layer sends them; an exception    *)
(* that no handler catches is answered 500.  id: the "_id" (or the token's *)
(* subject) of the body; exp: the token's expiry claim; user: the          *)
(* serialized user of the body, if any.                                    *)
(***************************************************************************)
Response(op, status, detail) ==
    [op |-> op, status |-> status, detail |-> detail, id |-> None, exp |-> 0, user |-> <<>>]
HTTPException(op, status, detail) == Response(op, status, detail)
Unhandled(op) == Response(op, 500, "Internal Server Error")
Ok(op) == Response(op, 200, "")

(***************************************************************************)
(* Credential store (passlib): a hash keeps what verify needs.             *)
(***************************************************************************)
get_password_hash(password) == [scheme |-> "bcrypt", secret |-> password]
verify_password_Any(plain_password, hashed_password) == TRUE

verify_password(plain_password, hashed_password) ==
    hashed_password.secret = plain_password

(***************************************************************************)
(* Token service (python-jose).  A token is its signature's validity under *)
(* SECRET_KEY and its claims: sub (a str or absent) and exp (whole seconds *)
(* since 1970: jwt.encode converts the datetime with timegm, dropping the  *)
(* fraction of a second).                                                  *)
(***************************************************************************)
Seconds(t) == t \div TicksPerSecond
DefaultTtl == ACCESS_TOKEN_EXPIRE_MINUTES * 60 * TicksPerSecond

\* expires_delta or timedelta(minutes=...): None and timedelta(0) are both falsy.
\* ttl in ticks, -1 for None
ExpireAt(t, ttl) == t + (IF ttl = -1 \/ ttl = 0 THEN DefaultTtl ELSE ttl)
create_access_token(sub, t, ttl) ==
    [sig |-> TRUE, sub |-> sub, exp |-> Seconds(ExpireAt(t, ttl))]

\* jwt.decode at time t: TRUE iff no JWTError.  _validate_exp raises
\* ExpiredSignatureError (a JWTError) iff exp < now, both in whole seconds.
JwtDecodes(token, t) == token.sig /\ ~(token.exp < Seconds(t))

(***************************************************************************)
(* Identity resolver.                                                      *)
(***************************************************************************)
CredentialsException(op) == HTTPException(op, 401, "Could not validate credentials")

\* get_current_user: the id of the stored user, or 0 when the request ends
\* there, with the response AuthError
get_current_user(token) ==
    IF ~JwtDecodes(token, now) \/ token.sub = None THEN 0
    ELSE IF ~ObjectIdIsValid(token.sub) THEN 0
    ELSE IF ObjectId(token.sub) \notin DOMAIN user THEN 0
    ELSE ObjectId(token.sub)
AuthError(op, token) ==
    IF ~JwtDecodes(token, now) \/ token.sub = None THEN CredentialsException(op)
    ELSE IF ~ObjectIdIsValid(token.sub) THEN Unhandled(op)  \* ObjectId(user_id) raises InvalidId
    ELSE CredentialsException(op)

require_admin_Anyone(u) == TRUE

\* require_admin, given the resolved user
require_admin(u) == user[u].is_admin

serialize_user(u, doc) ==
    [id |-> StrOid(u), email |-> doc.email, full_name |-> doc.full_name,
     country |-> doc.country, company_id |-> doc.company_id,
     cafe_name |-> doc.cafe_name, is_admin |-> doc.is_admin,
     created_at |-> doc.created_at, updated_at |-> doc.updated_at]

\* tokens a client may present: one for each possible subject id, valid now and
\* later, and one for each way of being refused
FarExp == Seconds(Epoch) + 1
PastExp == Seconds(Epoch) - 1
TokenOf(n) == [sig |-> TRUE, sub |-> StrOid(n), exp |-> FarExp]
BadSignature == [sig |-> FALSE, sub |-> StrOid(First(UserOids)), exp |-> FarExp]
\* what the clients of the handlers hold: the token of each stored user, and
\* a token that does not verify
ClientTokens == {TokenOf(n) : n \in DOMAIN user} \cup {BadSignature}
Tokens ==
    {TokenOf(n) : n \in UserOids \cup {First(CompanyOids)}}
    \cup {BadSignature,
          [sig |-> TRUE, sub |-> None, exp |-> FarExp],
          [sig |-> TRUE, sub |-> StrOid(First(UserOids)), exp |-> PastExp],
          [sig |-> TRUE, sub |-> Text("abc"), exp |-> FarExp],
          [sig |-> TRUE, sub |-> Hex(First(UserOids), TRUE), exp |-> FarExp]}

(***************************************************************************)
(* The store.  find_one with a filter that several documents match returns *)
(* any one of them (the store promises no order).                          *)
(***************************************************************************)
get_user_by_email(email) == {u \in DOMAIN user : user[u].email = email}

\* the request ends with response r and writes nothing
Reply(r) ==
    /\ resp' = r
    /\ UNCHANGED <<user, company, pendingcompanyrequest, foodrank, oidgen, now, held, inflight>>

(***************************************************************************)
(* POST /auth/register                                                     *)
(***************************************************************************)
\* the Company a registration's reference resolves to: by id when the reference
\* is a valid ObjectId of a stored Company, else by exact name
ResolveCompany(reference) ==
    LET byId == IF ObjectIdIsValid(reference)
                THEN {c \in DOMAIN company : c = ObjectId(reference)}
                ELSE {}
        byName == {c \in DOMAIN company : company[c].name = reference}
    IN  IF ~Truthy(reference) THEN {}
        ELSE IF byId # {} THEN byId
        ELSE byName

CompanyIdOf_AsGiven(reference, comp) == reference

\* company_id = str(comp["_id"])
CompanyIdOf(reference, comp) == StrOid(comp)

UserDoc_AdminByDefault(payload, company_id) ==
    [email |-> payload.email,
     hashed_password |-> get_password_hash(payload.password),
     full_name |-> payload.full_name,
     country |-> payload.country,
     company_id |-> company_id,
     cafe_name |-> payload.cafe_name,
     is_admin |-> TRUE,
     created_at |-> now,
     updated_at |-> now]

UserDoc(payload, company_id) ==
    [email |-> payload.email,
     hashed_password |-> get_password_hash(payload.password),
     full_name |-> payload.full_name,
     country |-> payload.country,
     company_id |-> company_id,
     cafe_name |-> payload.cafe_name,
     is_admin |-> FALSE,
     created_at |-> now,
     updated_at |-> now]

PendingDoc_Approved(payload) ==
    [name |-> payload.company,
     country |-> payload.country,
     requested_by |-> None,
     approved |-> TRUE,
     created_at |-> now,
     updated_at |-> now]

PendingDoc(payload) ==
    [name |-> payload.company,
     country |-> payload.country,
     requested_by |-> None,
     approved |-> FALSE,
     created_at |-> now,
     updated_at |-> now]

RegisterToken(uid) ==
    LET t == create_access_token(StrOid(uid), now, -1)
    IN  [Ok("register") EXCEPT !.id = t.sub, !.exp = t.exp]

register(payload) ==
    LET uid == NewOid(UserOids, user)
    IN  IF get_user_by_email(payload.email) # {}
        THEN Reply(HTTPException("register", 400, "Email already registered"))
        ELSE IF ResolveCompany(payload.company) # {}
        THEN \E comp \in ResolveCompany(payload.company) :
                /\ oidgen + 1 <= MaxOid
                /\ user' = user @@
                        (uid :> UserDoc(payload, CompanyIdOf(payload.company, comp)))
                /\ oidgen' = oidgen + 1
                /\ resp' = RegisterToken(uid)
                /\ UNCHANGED <<company, pendingcompanyrequest, foodrank, now, held, inflight>>
        ELSE IF Truthy(payload.company)
        THEN /\ oidgen + 2 <= MaxOid
             /\ pendingcompanyrequest' = pendingcompanyrequest @@
                    (NewOid(PendingOids, pendingcompanyrequest) :> PendingDoc(payload))
             /\ user' = user @@ (uid :> UserDoc(payload, None))
             /\ oidgen' = oidgen + 2
             /\ resp' = RegisterToken(uid)
             /\ UNCHANGED <<company, foodrank, now, held, inflight>>
        ELSE /\ oidgen + 1 <= MaxOid
             /\ user' = user @@ (uid :> UserDoc(payload, None))
             /\ oidgen' = oidgen + 1
             /\ resp' = RegisterToken(uid)
             /\ UNCHANGED <<company, pendingcompanyrequest, foodrank, now, held, inflight>>

RegisterInputs ==
    [email : Emails, password : RegPasswords, full_name : {Text("Ann")},
     country : {Text("US")}, company : References, cafe_name : {None}]

(***************************************************************************)
(* POST /auth/login                                                        *)
(***************************************************************************)
login(payload) ==
    IF get_user_by_email(payload.email) = {}
    THEN Reply(HTTPException("login", 400, "Incorrect email or password"))
    ELSE \E u \in get_user_by_email(payload.email) :
            IF ~verify_password(payload.password, user[u].hashed_password)
            THEN Reply(HTTPException("login", 400, "Incorrect email or password"))
            ELSE LET t == create_access_token(StrOid(u), now, -1)
                 IN  Reply([Ok("login") EXCEPT !.id = t.sub, !.exp = t.exp])

LoginInputs == [email : Emails, password : Passwords]

(***************************************************************************)
(* GET /auth/me                                                            *)
(***************************************************************************)
me(token) ==
    LET u == get_current_user(token)
    IN  IF u = 0 THEN Reply(AuthError("me", token))
        ELSE Reply([Ok("me") EXCEPT !.id = StrOid(u),
                                    !.user = <<serialize_user(u, user[u])>>])

(***************************************************************************)
(* POST /companies                                                         *)
(***************************************************************************)
CompanyDoc_AutoApproved(data, u) ==
    [name |-> data.name,
     country |-> data.country,
     approved |-> TRUE,
     created_by |-> StrOid(u),
     created_at |-> now,
     updated_at |-> now]

CompanyDoc(data, u) ==
    [name |-> data.name,
     country |-> data.country,
     approved |-> user[u].is_admin,
     created_by |-> StrOid(u),
     created_at |-> now,
     updated_at |-> now]

\* find_one({"name": ..., "country": ...}) finds only the name
CompanyExists_ByName(data) == \E c \in DOMAIN company : company[c].name = data.name

\* existing = db["company"].find_one({"name": data.name, "country": data.country})
CompanyExists(data) ==
    \E c \in DOMAIN company :
        company[c].name = data.name /\ company[c].country = data.country

create_company(data, token) ==
    LET u == get_current_user(token)
        oid == NewOid(CompanyOids, company)
    IN  IF u = 0 THEN Reply(AuthError("create_company", token))
        ELSE IF CompanyExists(data)
        THEN Reply(HTTPException("create_company", 400, "Company already exists"))
        ELSE /\ oidgen + 1 <= MaxOid
             /\ company' = company @@ (oid :> CompanyDoc(data, u))
             /\ oidgen' = oidgen + 1
             /\ resp' = [Ok("create_company") EXCEPT !.id = StrOid(oid)]
             /\ UNCHANGED <<user, pendingcompanyrequest, foodrank, now, held, inflight>>

CompanyInputs == [name : {Text("Acme")}, country : {Text("US"), Text("DE")}]

(***************************************************************************)
(* POST /admin/companies/approve                                           *)
(***************************************************************************)
\* the flag is flipped instead of set
approve_company_Toggles(payload, token) ==
    LET u == get_current_user(token)
        cid == ObjectId(payload.company_id)
    IN  IF u = 0 THEN Reply(AuthError("approve_company", token))
        ELSE IF ~require_admin(u)
        THEN Reply(HTTPException("approve_company", 403, "Admin privileges required"))
        ELSE IF ~ObjectIdIsValid(payload.company_id)
        THEN Reply(HTTPException("approve_company", 400, "Invalid company id"))
        ELSE IF cid \notin DOMAIN company
        THEN Reply(HTTPException("approve_company", 404, "Company not found"))
        ELSE /\ company' = [company EXCEPT ![cid] =
                                [@ EXCEPT !.approved = ~@, !.updated_at = now]]
             /\ resp' = Ok("approve_company")
             /\ UNCHANGED <<user, pendingcompanyrequest, foodrank, oidgen, now, held, inflight>>

\* un-approval also takes the company away from its users
approve_company_Cascade(payload, token) ==
    LET u == get_current_user(token)
        cid == ObjectId(payload.company_id)
    IN  IF u = 0 THEN Reply(AuthError("approve_company", token))
        ELSE IF ~require_admin(u)
        THEN Reply(HTTPException("approve_company", 403, "Admin privileges required"))
        ELSE IF ~ObjectIdIsValid(payload.company_id)
        THEN Reply(HTTPException("approve_company", 400, "Invalid company id"))
        ELSE IF cid \notin DOMAIN company
        THEN Reply(HTTPException("approve_company", 404, "Company not found"))
        ELSE /\ company' = [company EXCEPT ![cid] =
                                [@ EXCEPT !.approved = payload.approved,
                                          !.updated_at = now]]
             /\ user' = [v \in DOMAIN user |->
                            IF /\ ~payload.approved
                               /\ ObjectIdIsValid(user[v].company_id)
                               /\ ObjectId(user[v].company_id) = cid
                            THEN [user[v] EXCEPT !.company_id = None]
                            ELSE user[v]]
             /\ resp' = Ok("approve_company")
             /\ UNCHANGED <<pendingcompanyrequest, foodrank, oidgen, now, held, inflight>>

approve_company(payload, token) ==
    LET u == get_current_user(token)
    IN  IF u = 0 THEN Reply(AuthError("approve_company", token))
        ELSE IF ~require_admin(u)
        THEN Reply(HTTPException("approve_company", 403, "Admin privileges required"))
        ELSE IF ~ObjectIdIsValid(payload.company_id)
        THEN Reply(HTTPException("approve_company", 400, "Invalid company id"))
        ELSE IF ObjectId(payload.company_id) \notin DOMAIN company
        THEN Reply(HTTPException("approve_company", 404, "Company not found"))
        ELSE /\ company' = [company EXCEPT ![ObjectId(payload.company_id)] =
                                [@ EXCEPT !.approved = payload.approved,
                                          !.updated_at = now]]
             /\ resp' = Ok("approve_company")
             /\ UNCHANGED <<user, pendingcompanyrequest, foodrank, oidgen, now, held, inflight>>

ApproveInputs ==
    [company_id : {Text("abc")} \cup {Hex(n, FALSE) : n \in CompanyOids} \cup UpperIdStrings,
     approved : BOOLEAN]

(***************************************************************************)
(* PUT /user/profile                                                       *)
(***************************************************************************)
\* the document after $set of the fields the request carries
ApplyUpdates(doc, data) ==
    [doc EXCEPT
        !.country = IF data.country # None THEN data.country ELSE @,
        !.cafe_name = IF data.cafe_name # None THEN data.cafe_name ELSE @,
        !.full_name = IF data.full_name # None THEN data.full_name ELSE @,
        !.company_id = IF data.company_id # None THEN data.company_id ELSE @,
        !.updated_at = now]

CompanyApproved_Unchecked(company_id) == TRUE

CompanyApproved_ExistenceOnly(company_id) == ObjectId(company_id) \in DOMAIN company

\* the company the request may assign: found by id and approved
CompanyApproved(company_id) ==
    /\ ObjectId(company_id) \in DOMAIN company
    /\ company[ObjectId(company_id)].approved

RefuseProfile_AfterWrite(u, data, r) ==
    /\ user' = [user EXCEPT ![u] = ApplyUpdates(@, [data EXCEPT !.company_id = None])]
    /\ resp' = r
    /\ UNCHANGED <<company, pendingcompanyrequest, foodrank, oidgen, now, held, inflight>>

\* a raise in the company_id branch: the updates collected so far are dropped
RefuseProfile(u, data, r) == Reply(r)

update_profile(data, token) ==
    LET u == get_current_user(token)
        noUpdates == /\ data.country = None /\ data.cafe_name = None
                     /\ data.full_name = None /\ data.company_id = None
    IN  IF u = 0 THEN Reply(AuthError("update_profile", token))
        ELSE IF /\ data.company_id # None
                /\ Truthy(data.company_id)
                /\ ~ObjectIdIsValid(data.company_id)
        THEN RefuseProfile(u, data, HTTPException("update_profile", 400, "Invalid company id"))
        ELSE IF data.company_id # None /\ ~ObjectIdIsValid(data.company_id)
        THEN RefuseProfile(u, data, Unhandled("update_profile"))  \* ObjectId("") raises InvalidId
        ELSE IF data.company_id # None /\ ~CompanyApproved(data.company_id)
        THEN RefuseProfile(u, data, HTTPException("update_profile", 400, "Company not approved"))
        ELSE IF noUpdates
        THEN Reply([Ok("update_profile") EXCEPT
                        !.id = StrOid(u), !.user = <<serialize_user(u, user[u])>>])
        ELSE /\ user' = [user EXCEPT ![u] = ApplyUpdates(@, data)]
             /\ resp' = [Ok("update_profile") EXCEPT
                            !.id = StrOid(u),
                            !.user = <<serialize_user(u, ApplyUpdates(user[u], data))>>]
             /\ UNCHANGED <<company, pendingcompanyrequest, foodrank, oidgen, now, held, inflight>>

\* a partial update: nothing, the three plain fields, a company_id, or all four
ProfileInputs ==
    [country : {None}, company_id : {None} \cup CompanyIdInputs,
     cafe_name : {None}, full_name : {None}]
    \cup [country : {Text("DE")}, company_id : {None, Text("abc"), Hex(First(CompanyOids), FALSE)},
          cafe_name : {Text("Cafe")}, full_name : {Text("Bob")}]

(***************************************************************************)
(* POST /ranks                                                             *)
(***************************************************************************)
RankDoc_Swapped(data, u) ==
    [user_id |-> StrOid(u),
     company_id |-> user[u].company_id,
     cafe_name |-> user[u].country,
     country |-> IF Truthy(user[u].cafe_name) THEN user[u].cafe_name ELSE Text(""),
     date |-> data.date,
     dish |-> data.dish,
     rating |-> data.rating,
     image_url |-> data.image_url,
     comment |-> data.comment,
     created_at |-> now,
     updated_at |-> now]

RankDoc(data, u) ==
    [user_id |-> StrOid(u),
     company_id |-> user[u].company_id,
     cafe_name |-> IF Truthy(user[u].cafe_name) THEN user[u].cafe_name ELSE Text(""),
     country |-> user[u].country,
     date |-> data.date,
     dish |-> data.dish,
     rating |-> data.rating,
     image_url |-> data.image_url,
     comment |-> data.comment,
     created_at |-> now,
     updated_at |-> now]

RatingOutOfRange_OffByOne(rating) == rating < MinRating \/ rating > MaxRating + 1

RatingOutOfRange(rating) == rating < MinRating \/ rating > MaxRating

HasCompany_Unchecked(u) == TRUE

\* company_id = user.get("company_id"); if not company_id: ...
HasCompany(u) == Truthy(user[u].company_id)

create_rank(data, token) ==
    LET u == get_current_user(token)
        oid == NewOid(RankOids, foodrank)
    IN  IF u = 0 THEN Reply(AuthError("create_rank", token))
        ELSE IF ~HasCompany(u)
        THEN Reply(HTTPException("create_rank", 400, "User has no company assigned"))
        ELSE IF RatingOutOfRange(data.rating)
        THEN Reply(HTTPException("create_rank", 400, "Rating must be 1-5"))
        ELSE /\ oidgen + 1 <= MaxOid
             /\ foodrank' = foodrank @@ (oid :> RankDoc(data, u))
             /\ oidgen' = oidgen + 1
             /\ resp' = [Ok("create_rank") EXCEPT !.id = StrOid(oid)]
             /\ UNCHANGED <<user, company, pendingcompanyrequest, now, held, inflight>>

RankInputs ==
    [date : {"2024-01-01"}, dish : {Text("Soup")}, rating : RatingInputs,
     comment : {None}, image_url : {None}]

(***************************************************************************)
(* The store when the process starts: one administrator, put there by      *)
(* hand (no request creates one), and nothing else.                        *)
(***************************************************************************)
Empty == [n \in {} |-> None]
\* no request is in flight: the handlers of Spec run one at a time
NoRequests == <<>>
NoToken == [token |-> [sig |-> FALSE, sub |-> None, exp |-> 0], t0 |-> 0, ttl |-> -1]

SeedAdmin ==
    [email |-> "root@x",
     hashed_password |-> get_password_hash("pw1"),
     full_name |-> Text("Root"),
     country |-> Text("US"),
     company_id |-> None,
     cafe_name |-> None,
     is_admin |-> TRUE,
     created_at |-> Epoch,
     updated_at |-> Epoch]

Init ==
    /\ user = (First(UserOids) :> SeedAdmin)
    /\ company = Empty
    /\ pendingcompanyrequest = Empty
    /\ foodrank = Empty
    /\ oidgen = 1
    /\ now = Epoch
    /\ resp = Ok("")
    /\ held = NoToken
    /\ inflight = NoRequests

Register == \E payload \in RegisterInputs : register(payload)
Login == \E payload \in LoginInputs : login(payload)
Me == \E token \in Tokens : me(token)
\* a request whose token resolves to no user is refused whatever its body:
\* one body stands for all of them
BodiesFor(token, inputs) ==
    IF get_current_user(token) = 0 THEN {CHOOSE body \in inputs : TRUE} ELSE inputs

CreateCompany ==
    \E token \in ClientTokens :
        \E data \in BodiesFor(token, CompanyInputs) : create_company(data, token)
\* likewise for a caller that require_admin refuses
AdminBodiesFor(token, inputs) ==
    IF get_current_user(token) # 0 /\ require_admin(get_current_user(token))
    THEN inputs
    ELSE {CHOOSE body \in inputs : TRUE}
ApproveCompany ==
    \E token \in ClientTokens :
        \E payload \in AdminBodiesFor(token, ApproveInputs) : approve_company(payload, token)
UpdateProfile ==
    \E token \in ClientTokens :
        \E data \in BodiesFor(token, ProfileInputs) : update_profile(data, token)
CreateRank ==
    \E token \in ClientTokens :
        \E data \in BodiesFor(token, RankInputs) : create_rank(data, token)

Next ==
    \/ Register
    \/ Login
    \/ Me
    \/ CreateCompany
    \/ ApproveCompany
    \/ UpdateProfile
    \/ CreateRank

Spec == Init /\ [][Next]_vars

(***************************************************************************)
(* Token study: one token is issued for the seeded user, time passes to an *)
(* instant around the token's expiry, and the token is presented to an     *)
(* endpoint that resolves the caller (GET /auth/me).                       *)
(***************************************************************************)
\* expires_delta of create_access_token, in ticks: None (-1), and a few short
\* ones that end on and off a whole second
Ttls == {-1} \cup (1 .. 2 * TicksPerSecond)
\* the ttl the holder of a token was given: 24 hours when none was given
TtlGiven(ttl) == IF ttl = -1 THEN DefaultTtl ELSE ttl

\* the process starts at any fraction of a second
TokenInit ==
    /\ user = (First(UserOids) :> SeedAdmin)
    /\ company = Empty
    /\ pendingcompanyrequest = Empty
    /\ foodrank = Empty
    /\ oidgen = 1
    /\ now \in Epoch .. (Epoch + TicksPerSecond - 1)
    /\ resp = Ok("")
    /\ held = NoToken
    /\ inflight = NoRequests

\* create_access_token({"sub": str(user id)}, expires_delta) at utcnow()
IssueToken ==
    /\ held = NoToken
    /\ \E ttl \in Ttls :
        /\ held' = [token |-> create_access_token(StrOid(First(UserOids)), now, ttl),
                    t0 |-> now, ttl |-> ttl]
        /\ resp' = [Ok("create_access_token") EXCEPT
                        !.id = StrOid(First(UserOids)),
                        !.exp = Seconds(ExpireAt(now, ttl))]
    /\ UNCHANGED <<user, company, pendingcompanyrequest, foodrank, oidgen, now, inflight>>

\* the clock advances to an instant near the end of the held token's ttl
Pass ==
    /\ held # NoToken
    /\ \E d \in (0 - MaxSkew) .. MaxSkew :
        /\ held.t0 + TtlGiven(held.ttl) + d > now
        /\ now' = held.t0 + TtlGiven(held.ttl) + d
    /\ UNCHANGED <<user, company, pendingcompanyrequest, foodrank, oidgen, resp, held, inflight>>

\* GET /auth/me with the held token
Present ==
    /\ held # NoToken
    /\ me(held.token)

TokenNext ==
    \/ IssueToken
    \/ Pass
    \/ Present

TokenSpec == TokenInit /\ [][TokenNext]_vars

(***************************************************************************)
(* Concurrency studies: several requests in flight, each handler a         *)
(* sequence of store operations (find_one, insert_one, update_one), every  *)
(* store operation one atomic step, the steps of different requests        *)
(* interleaved in any order.                                               *)
(***************************************************************************)
Requests == 1 .. MaxRequests
Idle == [op |-> "", pc |-> "idle", data |-> <<>>, u |-> 0]
AllIdle == [p \in Requests |-> Idle]
\* request p moves to position pc
Goto(p, pc) == inflight' = [inflight EXCEPT ![p].pc = pc]
At(p, op, pc) == inflight[p].op = op /\ inflight[p].pc = pc

\* a user as register stores it, without company
Registered ==
    UserDoc([email |-> "a@x", password |-> "pw1", full_name |-> Text("Ann"),
             country |-> Text("US"), company |-> None, cafe_name |-> None], None)
\* the store the studies of authenticated requests start from: the seeded
\* admin and one registered user
TwoUsers == (First(UserOids) :> SeedAdmin) @@ ((First(UserOids) + 1) :> Registered)

(***************************************************************************)
(* POST /companies, concurrently.                                          *)
(***************************************************************************)
CompanyRaceInit ==
    /\ now = Epoch
    /\ user = TwoUsers
    /\ company = Empty
    /\ pendingcompanyrequest = Empty
    /\ foodrank = Empty
    /\ oidgen = 2
    /\ resp = Ok("")
    /\ held = NoToken
    /\ inflight = AllIdle

\* the request arrives and get_current_user resolves the caller
StartCreate ==
    \E p \in Requests :
        /\ inflight[p].pc = "idle"
        /\ \E u \in DOMAIN user : \E data \in CompanyInputs :
            /\ get_current_user(TokenOf(u)) = u
            /\ inflight' = [inflight EXCEPT
                                ![p] = [op |-> "create_company", pc |-> "check",
                                        data |-> data, u |-> u]]
        /\ UNCHANGED <<user, company, pendingcompanyrequest, foodrank, oidgen, now, resp, held>>

\* existing = find_one(...); if existing: raise
CheckCreate ==
    \E p \in Requests :
        /\ At(p, "create_company", "check")
        /\ IF CompanyExists(inflight[p].data)
           THEN /\ resp' = HTTPException("create_company", 400, "Company already exists")
                /\ Goto(p, "done")
           ELSE /\ resp' = resp
                /\ Goto(p, "insert")
        /\ UNCHANGED <<user, company, pendingcompanyrequest, foodrank, oidgen, now, held>>

\* result = db["company"].insert_one(doc)
InsertCreate ==
    \E p \in Requests :
        /\ At(p, "create_company", "insert")
        /\ company' = company @@
                (NewOid(CompanyOids, company) :> CompanyDoc(inflight[p].data, inflight[p].u))
        /\ oidgen' = oidgen + 1
        /\ resp' = [Ok("create_company") EXCEPT !.id = StrOid(NewOid(CompanyOids, company))]
        /\ Goto(p, "done")
        /\ UNCHANGED <<user, pendingcompanyrequest, foodrank, now, held>>

CompanyRaceNext ==
    \/ StartCreate
    \/ CheckCreate
    \/ InsertCreate

CompanyRaceSpec == CompanyRaceInit /\ [][CompanyRaceNext]_vars

(***************************************************************************)
(* PUT /user/profile with a company_id, concurrently with                  *)
(* POST /admin/companies/approve.                                          *)
(***************************************************************************)
\* the company the admin created before the study starts (approved: the
\* creator is an admin)
AdminCompany ==
    [name |-> Text("Acme"), country |-> Text("US"), approved |-> TRUE,
     created_by |-> StrOid(First(UserOids)), created_at |-> Epoch, updated_at |-> Epoch]
\* profile updates that carry a company_id: a malformed one and the company's
AssignInputs ==
    {data \in ProfileInputs :
        data.company_id \in {Text("abc"), Hex(First(CompanyOids), FALSE)}}

AssignRaceInit ==
    /\ now = Epoch
    /\ user = TwoUsers
    /\ company = (First(CompanyOids) :> AdminCompany)
    /\ pendingcompanyrequest = Empty
    /\ foodrank = Empty
    /\ oidgen = 3
    /\ resp = Ok("")
    /\ held = NoToken
    /\ inflight = AllIdle

\* the request arrives, get_current_user resolves the caller, and the
\* company_id is tested for being well-formed
StartAssign ==
    \E p \in Requests :
        /\ inflight[p].pc = "idle"
        /\ \E u \in DOMAIN user : \E data \in AssignInputs :
            /\ get_current_user(TokenOf(u)) = u
            /\ IF Truthy(data.company_id) /\ ~ObjectIdIsValid(data.company_id)
               THEN /\ resp' = HTTPException("update_profile", 400, "Invalid company id")
                    /\ inflight' = [inflight EXCEPT
                                        ![p] = [op |-> "update_profile", pc |-> "done",
                                                data |-> data, u |-> u]]
               ELSE IF ~ObjectIdIsValid(data.company_id)
               THEN /\ resp' = Unhandled("update_profile")
                    /\ inflight' = [inflight EXCEPT
                                        ![p] = [op |-> "update_profile", pc |-> "done",
                                                data |-> data, u |-> u]]
               ELSE /\ resp' = resp
                    /\ inflight' = [inflight EXCEPT
                                        ![p] = [op |-> "update_profile", pc |-> "check",
                                                data |-> data, u |-> u]]
        /\ UNCHANGED <<user, company, pendingcompanyrequest, foodrank, oidgen, now, held>>

\* comp = db["company"].find_one(...); if not comp or not approved: raise
CheckAssign ==
    \E p \in Requests :
        /\ At(p, "update_profile", "check")
        /\ IF ~CompanyApproved(inflight[p].data.company_id)
           THEN /\ resp' = HTTPException("update_profile", 400, "Company not approved")
                /\ Goto(p, "done")
           ELSE /\ resp' = resp
                /\ Goto(p, "write")
        /\ UNCHANGED <<user, company, pendingcompanyrequest, foodrank, oidgen, now, held>>

\* db["user"].update_one({"_id": user["_id"]}, {"$set": updates})
WriteAssign ==
    \E p \in Requests :
        LET u == inflight[p].u
            data == inflight[p].data
        IN  /\ At(p, "update_profile", "write")
            /\ user' = [user EXCEPT ![u] = ApplyUpdates(@, data)]
            /\ resp' = [Ok("update_profile") EXCEPT
                            !.id = StrOid(u),
                            !.user = <<serialize_user(u, ApplyUpdates(user[u], data))>>]
            /\ Goto(p, "done")
            /\ UNCHANGED <<company, pendingcompanyrequest, foodrank, oidgen, now, held>>

\* the admin's approve request: one update_one
SetApproval ==
    \E a \in DOMAIN user : \E payload \in ApproveInputs :
        /\ require_admin(a)
        /\ payload.company_id \in {StrOid(c) : c \in DOMAIN company}
        /\ approve_company(payload, TokenOf(a))

AssignRaceNext ==
    \/ StartAssign
    \/ CheckAssign
    \/ WriteAssign
    \/ SetApproval

AssignRaceSpec == AssignRaceInit /\ [][AssignRaceNext]_vars

(***************************************************************************)
(* POST /auth/register, concurrently.                                      *)
(***************************************************************************)
\* registrations without and with a company reference (no company is stored)
RaceRegisterInputs == {payload \in RegisterInputs : payload.company \in {None, Text("Acme")}}

RegisterRaceInit ==
    /\ now = Epoch
    /\ user = (First(UserOids) :> SeedAdmin)
    /\ company = Empty
    /\ pendingcompanyrequest = Empty
    /\ foodrank = Empty
    /\ oidgen = 1
    /\ resp = Ok("")
    /\ held = NoToken
    /\ inflight = AllIdle

\* the request arrives
StartRegister ==
    \E p \in Requests :
        /\ inflight[p].pc = "idle"
        /\ \E payload \in RaceRegisterInputs :
            inflight' = [inflight EXCEPT
                            ![p] = [op |-> "register", pc |-> "lookup", data |-> payload,
                                    u |-> 0, company_id |-> None]]
        /\ UNCHANGED <<user, company, pendingcompanyrequest, foodrank, oidgen, now, resp, held>>

\* existing = get_user_by_email(payload.email); if existing: raise
LookupRegister ==
    \E p \in Requests :
        /\ At(p, "register", "lookup")
        /\ IF get_user_by_email(inflight[p].data.email) # {}
           THEN /\ resp' = HTTPException("register", 400, "Email already registered")
                /\ Goto(p, "done")
           ELSE /\ resp' = resp
                /\ Goto(p, IF Truthy(inflight[p].data.company) THEN "resolve" ELSE "insert")
        /\ UNCHANGED <<user, company, pendingcompanyrequest, foodrank, oidgen, now, held>>

\* the company reference is looked up; a pending request is inserted when it
\* resolves to nothing
ResolveRegister ==
    \E p \in Requests :
        LET payload == inflight[p].data
        IN  /\ At(p, "register", "resolve")
            /\ IF ResolveCompany(payload.company) # {}
               THEN /\ \E comp \in ResolveCompany(payload.company) :
                        inflight' = [inflight EXCEPT
                                        ![p].pc = "insert",
                                        ![p].company_id = CompanyIdOf(payload.company, comp)]
                    /\ UNCHANGED <<pendingcompanyrequest, oidgen>>
               ELSE /\ pendingcompanyrequest' = pendingcompanyrequest @@
                            (NewOid(PendingOids, pendingcompanyrequest) :> PendingDoc(payload))
                    /\ oidgen' = oidgen + 1
                    /\ Goto(p, "insert")
            /\ UNCHANGED <<user, company, foodrank, now, resp, held>>

\* result = db["user"].insert_one(user_doc), and the token is returned
InsertRegister ==
    \E p \in Requests :
        /\ At(p, "register", "insert")
        /\ user' = user @@
                (NewOid(UserOids, user) :> UserDoc(inflight[p].data, inflight[p].company_id))
        /\ oidgen' = oidgen + 1
        /\ resp' = RegisterToken(NewOid(UserOids, user))
        /\ Goto(p, "done")
        /\ UNCHANGED <<company, pendingcompanyrequest, foodrank, now, held>>

RegisterRaceNext ==
    \/ StartRegister
    \/ LookupRegister
    \/ ResolveRegister
    \/ InsertRegister

RegisterRaceSpec == RegisterRaceInit /\ [][RegisterRaceNext]_vars

(***************************************************************************)
(* Properties.                                                             *)
(***************************************************************************)
\* the documents a step inserts
NewUsers == DOMAIN user' \ DOMAIN user
NewRanks == DOMAIN foodrank' \ DOMAIN foodrank
NewPending == DOMAIN pendingcompanyrequest' \ DOMAIN pendingcompanyrequest
\* the step gives user u a company_id (a new user, or a changed value)
Assigns(u) ==
    /\ Truthy(user'[u].company_id)
    /\ u \in DOMAIN user => user'[u].company_id # user[u].company_id
\* the company an id string refers to is stored and approved when the step starts
ApprovedAtWrite(company_id) ==
    /\ ObjectIdIsValid(company_id)
    /\ ObjectId(company_id) \in DOMAIN company
    /\ company[ObjectId(company_id)].approved
ExistsAtWrite(company_id) ==
    /\ ObjectIdIsValid(company_id)
    /\ ObjectId(company_id) \in DOMAIN company

C2_AssignToUser ==
    [][resp'.op = "update_profile" =>
        \A token \in ClientTokens :
            get_current_user(token) # 0 =>
                \A data \in ProfileInputs :
                    (data.company_id # None /\ update_profile(data, token))
                    => IF ~ObjectIdIsValid(data.company_id)
                       THEN /\ resp'.status = 400
                            /\ resp'.detail = "Invalid company id"
                            /\ user' = user
                       ELSE IF ~ApprovedAtWrite(data.company_id)
                       THEN /\ resp'.status = 400
                            /\ resp'.detail = "Company not approved"
                            /\ user' = user
                       ELSE /\ resp'.status = 200
                            /\ user'[get_current_user(token)].company_id =
                                    data.company_id]_vars

\* the new user of a registration step
NewUser == CHOOSE u \in NewUsers : TRUE

\* C3: a registration whose reference is the id of a stored Company gives the
\* new user that Company's id; otherwise one whose reference is the exact name
\* of a stored Company gives the id of a Company of that name; approved or not,
\* and no PendingCompanyRequest is created.
C3_RegisterResolvesCompany ==
    [][resp'.op = "register" =>
        \A payload \in RegisterInputs :
            (/\ Truthy(payload.company)
             /\ get_user_by_email(payload.email) = {}
             /\ register(payload))
            => LET byName == {c \in DOMAIN company : company[c].name = payload.company}
               IN  /\ ExistsAtWrite(payload.company) =>
                        /\ user'[NewUser].company_id = StrOid(ObjectId(payload.company))
                        /\ NewPending = {}
                   /\ (~ExistsAtWrite(payload.company) /\ byName # {}) =>
                        /\ \E c \in byName : user'[NewUser].company_id = StrOid(c)
                        /\ NewPending = {}]_vars

\* a registration has just given a user the id of a Company that is not approved
C3_Witness ==
    /\ resp.op = "register" /\ resp.status = 200
    /\ \E u \in DOMAIN user :
            /\ resp.id = StrOid(u)
            /\ ExistsAtWrite(user[u].company_id)
            /\ ~company[ObjectId(user[u].company_id)].approved

C5_ApprovalOnlyByAdmin ==
    [][/\ \/ company' = company
          \/ \A c \in DOMAIN company :
                /\ c \in DOMAIN company'
                /\ company'[c].approved # company[c].approved =>
                    /\ resp'.op = "approve_company" /\ resp'.status = 200
                    /\ \E u \in DOMAIN user :
                        /\ user[u].is_admin
                        /\ \E payload \in ApproveInputs :
                            /\ ObjectId(payload.company_id) = c
                            /\ payload.approved = company'[c].approved
                            /\ approve_company(payload, TokenOf(u))
       /\ \/ resp'.op # "approve_company"
          \/ resp'.status = 403 /\ company' = company
          \/ ~\E u \in DOMAIN user :
                /\ ~user[u].is_admin
                /\ \E payload \in ApproveInputs : approve_company(payload, TokenOf(u))]_vars

\* a user who is no administrator has just been refused, and a Company that an
\* administrator created (approved) and then un-approved is stored
C5_Witness ==
    /\ resp.op = "approve_company" /\ resp.status = 403
    /\ \E c \in DOMAIN company, u \in DOMAIN user :
            /\ company[c].created_by = StrOid(u)
            /\ user[u].is_admin
            /\ ~company[c].approved

\* the token denotes a stored user: valid signature, a subject, not expired
\* (the current time is before the expiry instant), the subject a stored id
Resolves(token) ==
    /\ token.sig
    /\ token.sub # None
    /\ now < token.exp * TicksPerSecond
    /\ ObjectIdIsValid(token.sub) /\ ObjectId(token.sub) \in DOMAIN user

\* C6 as stated: get_current_user answers one and the same 401 whenever the
\* signature is invalid, the subject is absent, the token is expired or the
\* subject matches no stored user, and returns the stored record of the
\* subject otherwise.
C6_ResolveOrUnauthenticated ==
    [][resp'.op = "me" =>
        \A token \in Tokens :
            me(token) =>
                IF Resolves(token)
                THEN /\ resp'.status = 200
                     /\ resp'.user =
                            <<serialize_user(ObjectId(token.sub), user[ObjectId(token.sub)])>>
                ELSE /\ resp'.status = 401
                     /\ resp'.detail = "Could not validate credentials"]_vars

\* C7 as stated: a token issued at t0 with ttl T (24 hours when no ttl was
\* given) is accepted when presented at any time strictly before t0 + T and
\* refused with the 401 when presented at t0 + T or later.
C7_ValidStrictlyBeforeExpiry ==
    [][(held # NoToken /\ held' = held /\ resp'.op = "me" /\ me(held.token)) =>
        IF now < held.t0 + TtlGiven(held.ttl)
        THEN resp'.status = 200
        ELSE resp'.status = 401]_vars

\* C8: create_rank for a user without company_id is answered "User has no
\* company assigned" and the foodrank collection is unchanged.
C8_NoCompanyAssigned ==
    [][resp'.op = "create_rank" =>
        \A u \in DOMAIN user :
            ~Truthy(user[u].company_id) =>
                \A data \in RankInputs :
                    create_rank(data, TokenOf(u))
                    => /\ resp'.status = 400
                       /\ resp'.detail = "User has no company assigned"
                       /\ foodrank' = foodrank]_vars

\* a registered user without company has just been refused, and no FoodRank is stored
C8_Witness ==
    /\ resp.op = "create_rank" /\ resp.status = 400
    /\ resp.detail = "User has no company assigned"
    /\ foodrank = Empty
    /\ \E u \in DOMAIN user : ~user[u].is_admin /\ user[u].company_id = None

\* C9: create_rank for a user with a company succeeds exactly when the rating
\* is in 1..5 (otherwise "Rating must be 1-5" and nothing is written), and every
\* stored FoodRank has a rating in 1..5.
C9_RatingInRange ==
    /\ [](\A r \in DOMAIN foodrank : foodrank[r].rating \in 1..5)
    /\ [][resp'.op = "create_rank" =>
            \A u \in DOMAIN user :
                Truthy(user[u].company_id) =>
                    \A data \in RankInputs :
                        create_rank(data, TokenOf(u))
                        => IF data.rating \in 1..5
                           THEN /\ resp'.status = 200
                                /\ Cardinality(NewRanks) = 1
                                /\ \A r \in NewRanks : foodrank'[r].rating = data.rating
                           ELSE /\ resp'.status = 400
                                /\ resp'.detail = "Rating must be 1-5"
                                /\ foodrank' = foodrank]_vars

\* a rating out of range has just been refused after a rating of 5 was stored
C9_Witness ==
    /\ resp.op = "create_rank" /\ resp.status = 400
    /\ resp.detail = "Rating must be 1-5"
    /\ \E r \in DOMAIN foodrank : foodrank[r].rating = 5

\* no step changes or removes a stored FoodRank
RanksKept ==
    \/ foodrank' = foodrank
    \/ \A r \in DOMAIN foodrank : r \in DOMAIN foodrank' /\ foodrank'[r] = foodrank[r]

SameKey(c, data) == company[c].name = data.name /\ company[c].country = data.country

\* C11: create_company answers "Company already exists" and adds nothing when
\* a Company with the same (name, country) is stored; otherwise it adds exactly
\* one Company, approved iff the creator is an admin.  With requests one at a
\* time no two Company records share (name, country).
C11_CreateCompany ==
    /\ [](\A c1, c2 \in DOMAIN company :
            (company[c1].name = company[c2].name
                /\ company[c1].country = company[c2].country) => c1 = c2)
    /\ [][resp'.op = "create_company" =>
            \A u \in DOMAIN user :
                \A data \in CompanyInputs :
                    create_company(data, TokenOf(u)) =>
                        IF \E c \in DOMAIN company : SameKey(c, data)
                        THEN /\ resp'.status = 400
                             /\ resp'.detail = "Company already exists"
                             /\ company' = company
                        ELSE /\ resp'.status = 200
                             /\ Cardinality(DOMAIN company') = Cardinality(DOMAIN company) + 1
                             /\ \A c \in DOMAIN company :
                                    c \in DOMAIN company' /\ company'[c] = company[c]
                             /\ \A c \in DOMAIN company' \ DOMAIN company :
                                    /\ company'[c].name = data.name
                                    /\ company'[c].country = data.country
                                    /\ company'[c].approved = user[u].is_admin]_vars

\* a registered user's company stands unapproved, and a second request for
\* the same (name, country) has just been refused
C11_Witness ==
    /\ resp.op = "create_company" /\ resp.status = 400
    /\ resp.detail = "Company already exists"
    /\ \E c \in DOMAIN company :
        /\ ~company[c].approved
        /\ \E u \in DOMAIN user : ~user[u].is_admin /\ company[c].created_by = StrOid(u)

\* C12: a request that ends in an error (any response other than 200: the
\* 400s, 401, 403, 404 and the unhandled 500) leaves the four collections as
\* they were.
C12_ErrorsWriteNothing ==
    [][resp'.status # 200 => store' = store]_vars

\* a profile update has just been refused for a company that is stored but
\* not approved
C12_Witness ==
    /\ resp.op = "update_profile" /\ resp.status = 400
    /\ resp.detail = "Company not approved"
    /\ \E c \in DOMAIN company : ~company[c].approved
    /\ \E u \in DOMAIN user : ~user[u].is_admin /\ user[u].country = Text("US")

\* the fields a profile update may set
ProfileFields == {"country", "cafe_name", "full_name", "company_id", "updated_at"}

\* C13: a user is added only by register, with is_admin = FALSE; no step
\* removes a user or changes a user's is_admin; update_profile changes only
\* the record of the caller the token resolves to, and in it only country,
\* cafe_name, full_name, company_id and updated_at.
C13_UserLifecycle ==
    [][/\ \A u \in DOMAIN user :
            /\ u \in DOMAIN user'
            /\ user'[u].is_admin = user[u].is_admin
       /\ \A u \in NewUsers :
            /\ resp'.op = "register" /\ resp'.status = 200
            /\ user'[u].is_admin = FALSE
       /\ (user' # user /\ NewUsers = {}) =>
            /\ resp'.op = "update_profile"
            /\ \E u \in DOMAIN user :
                /\ resp'.id = StrOid(u)
                /\ \E data \in ProfileInputs : update_profile(data, TokenOf(u))
                /\ \A v \in DOMAIN user \ {u} : user'[v] = user[v]
                /\ \A f \in DOMAIN user[u] \ ProfileFields : user'[u][f] = user[u][f]]_vars

\* a registered user has just changed their own profile, next to the seeded admin
C13_Witness ==
    /\ resp.op = "update_profile" /\ resp.status = 200
    /\ \E u \in DOMAIN user :
        /\ ~user[u].is_admin
        /\ resp.id = StrOid(u)
        /\ user[u].country = Text("DE")
        /\ user[u].email = "a@x"
    /\ \E a \in DOMAIN user : user[a].is_admin /\ user[a].country = Text("US")

\* the stored users a login with this payload authenticates as
Authenticates(payload) ==
    {u \in DOMAIN user :
        /\ user[u].email = payload.email
        /\ user[u].hashed_password = get_password_hash(payload.password)}

\* C14 as stated: login answers a token whose subject is the user stored
\* under the email when the password verifies against the stored hash, and
\* otherwise fails with 401 and writes nothing.
C14_LoginOr401 ==
    [][resp'.op = "login" =>
        \A payload \in LoginInputs :
            login(payload) =>
                IF Authenticates(payload) # {}
                THEN /\ resp'.status = 200
                     /\ \E u \in Authenticates(payload) : resp'.id = StrOid(u)
                ELSE /\ resp'.status = 401
                     /\ store' = store]_vars

\* C14, amended: as above, the failure being 400 "Incorrect email or password".
C14_LoginOr400 ==
    [][resp'.op = "login" =>
        \A payload \in LoginInputs :
            login(payload) =>
                IF Authenticates(payload) # {}
                THEN /\ resp'.status = 200
                     /\ \E u \in Authenticates(payload) : resp'.id = StrOid(u)
                     /\ store' = store
                ELSE /\ resp'.status = 400
                     /\ resp'.detail = "Incorrect email or password"
                     /\ store' = store]_vars

\* a login has just been refused although both emails are stored: the
\* password did not verify
C14_Witness ==
    /\ resp.op = "login" /\ resp.status = 400
    /\ \A e \in Emails : \E u \in DOMAIN user : user[u].email = e

\* C15: a create request passes its existence check iff no Company with its
\* (name, country) is stored at that moment, and a request that has passed
\* the check inserts its record whatever has been inserted since; so two
\* requests for the same (name, country) can both insert (C15_Witness).
C15_CheckThenInsert ==
    [][\A p \in Requests :
        /\ (At(p, "create_company", "check") /\ inflight'[p].pc # "check") =>
                /\ inflight'[p].pc = "insert" <=>
                        ~\E c \in DOMAIN company : SameKey(c, inflight[p].data)
                /\ company' = company
        /\ (At(p, "create_company", "insert") /\ inflight'[p].pc # "insert") =>
                /\ inflight'[p].pc = "done"
                /\ resp'.status = 200
                /\ \A c \in DOMAIN company : c \in DOMAIN company' /\ company'[c] = company[c]
                /\ \E c \in DOMAIN company' \ DOMAIN company :
                    /\ DOMAIN company' = DOMAIN company \cup {c}
                    /\ company'[c].name = inflight[p].data.name
                    /\ company'[c].country = inflight[p].data.country]_vars

\* both requests are done and two stored companies share (name, country)
C15_Witness ==
    /\ \A p \in Requests : At(p, "create_company", "done")
    /\ \E c1, c2 \in DOMAIN company :
        /\ c1 # c2
        /\ company[c1].name = company[c2].name
        /\ company[c1].country = company[c2].country

\* C16: approve_company changes no user, so company_id keeps referencing a
\* company that is un-approved later; update_profile tests approved in one
\* store operation and writes company_id in a later one, whatever approved
\* has become in between (C16_Witness: written while not approved).
C16_ApprovalCheckedOnlyAtAssignment ==
    [][/\ resp'.op = "approve_company" => user' = user
       /\ \A p \in Requests :
            /\ (At(p, "update_profile", "check") /\ inflight'[p].pc # "check") =>
                    /\ inflight'[p].pc = "write" <=>
                            \E c \in DOMAIN company :
                                /\ c = ObjectId(inflight[p].data.company_id)
                                /\ company[c].approved
                    /\ user' = user
            /\ (At(p, "update_profile", "write") /\ inflight'[p].pc # "write") =>
                    /\ resp'.status = 200
                    /\ user'[inflight[p].u].company_id = inflight[p].data.company_id
                    /\ company' = company]_vars

\* the last request answered is a profile update that has just stored the
\* id of a company which is not approved
C16_Witness ==
    /\ resp.op = "update_profile" /\ resp.status = 200
    /\ \E p \in Requests :
        /\ At(p, "update_profile", "done")
        /\ resp.id = StrOid(inflight[p].u)
        /\ ObjectIdIsValid(inflight[p].data.company_id)
        /\ user[inflight[p].u].company_id = inflight[p].data.company_id
        /\ ObjectId(inflight[p].data.company_id) \in DOMAIN company
        /\ ~company[ObjectId(inflight[p].data.company_id)].approved

\* the company_id of the payload resolves to a stored Company
ResolvesToCompany(payload) ==
    /\ ObjectIdIsValid(payload.company_id)
    /\ ObjectId(payload.company_id) \in DOMAIN company

\* approve_company on a stored Company: approved becomes the requested value
\* (so a second application leaves it as the first did), nothing else of
\* that Company but updated_at changes, and no other Company changes
SetsApproval(payload) ==
    LET cid == ObjectId(payload.company_id)
    IN  /\ resp'.status = 200
        /\ DOMAIN company' = DOMAIN company
        /\ company'[cid].approved = payload.approved
        /\ company'[cid] = [company[cid] EXCEPT !.approved = payload.approved,
                                                !.updated_at = company'[cid].updated_at]
        /\ \A c \in DOMAIN company \ {cid} : company'[c] = company[c]
        /\ (company[cid].approved = payload.approved
                => company'[cid].approved = company[cid].approved)

\* C17 as stated: for an admin, a company_id that resolves to no record is
\* answered NotFound (404) and changes nothing; for a stored Company approved
\* is set to the requested value and nothing else changes.
C17_SetApprovalOrNotFound ==
    [][resp'.op = "approve_company" =>
        \A a \in DOMAIN user :
            user[a].is_admin =>
                \A payload \in ApproveInputs :
                    approve_company(payload, TokenOf(a)) =>
                        IF ResolvesToCompany(payload)
                        THEN SetsApproval(payload)
                        ELSE /\ resp'.status = 404
                             /\ store' = store]_vars

\* C17, amended: a malformed company_id is answered 400 "Invalid company id",
\* a well-formed one that resolves to no record 404 "Company not found", both
\* changing nothing; the rest as stated.
C17_SetApprovalOrRefused ==
    [][resp'.op = "approve_company" =>
        \A a \in DOMAIN user :
            user[a].is_admin =>
                \A payload \in ApproveInputs :
                    approve_company(payload, TokenOf(a)) =>
                        IF ResolvesToCompany(payload)
                        THEN SetsApproval(payload)
                        ELSE IF ObjectIdIsValid(payload.company_id)
                        THEN /\ resp'.status = 404
                             /\ resp'.detail = "Company not found"
                             /\ store' = store
                        ELSE /\ resp'.status = 400
                             /\ resp'.detail = "Invalid company id"
                             /\ store' = store]_vars

\* the admin's own company, approved when created, stands un-approved, and
\* a request for an id that resolves to no record has just been answered 404
C17_Witness ==
    /\ resp.op = "approve_company" /\ resp.status = 404
    /\ \E c \in DOMAIN company :
        /\ ~company[c].approved
        /\ \E a \in DOMAIN user : user[a].is_admin /\ company[c].created_by = StrOid(a)

\* C18 as stated: in every reachable state no two users have the same
\* email, for every interleaving of register requests whose email lookup
\* and user insert are separate store operations; a register that finds its
\* email stored is answered "Email already registered" and writes nothing.
C18_EmailsUnique ==
    /\ [](\A u1, u2 \in DOMAIN user : user[u1].email = user[u2].email => u1 = u2)
    /\ [][\A p \in Requests :
            (/\ At(p, "register", "lookup")
             /\ inflight'[p].pc # "lookup"
             /\ \E u \in DOMAIN user : user[u].email = inflight[p].data.email) =>
                /\ resp'.status = 400
                /\ resp'.detail = "Email already registered"
                /\ store' = store]_vars

\* the value is the id of a stored Company / of a stored User (an id string
\* denotes the ObjectId it parses to)
IsCompanyId(v) == ObjectIdIsValid(v) /\ ObjectId(v) \in DOMAIN company
IsUserId(v) == ObjectIdIsValid(v) /\ ObjectId(v) \in DOMAIN user

====
